---- MODULE Spec2Model ----
(***************************************************************************)
(* Block state engine of the node (packages/core-state/src/block-state.ts):*)
(* applyBlock / revertBlock, applyTransaction / revertTransaction and the  *)
(* vote-balance updater, run against an in-memory wallet ledger.           *)
(*                                                                         *)
(* The wallet repository and the per-type transaction handlers live in     *)
(* other packages; they are modelled from the written specification        *)
(* (sections 4.1, 6 and 8) and kept apart from the engine's own code.      *)
(***************************************************************************)
EXTENDS Integers, Sequences, FiniteSets, TLC

\* ------------------------------------------------------------------ bounds
\* longest transaction list of a block
MaxTxs == 2
\* number of applyBlock / revertBlock calls in one behaviour
MaxCalls == 2
\* number of applyTransaction / revertTransaction calls made directly in one behaviour
MaxSteps == 4

\* ------------------------------------------------------------ program data
\* block-state.ts:21  `block.data.height === 1`
GenesisHeight == 1

NoKey == "none"
NoVote == "novote"
NoAddr == "noaddr"
NoBlock == [id |-> "undefined"]

PublicKeys == {"pD", "pE", "pX", "pY"}
Addresses == {"aD", "aE", "aX", "aY"}

\* Identities.Address.fromPublicKey: an injective derivation of the address
fromPublicKey(pk) ==
    CASE pk = "pD" -> "aD"
      [] pk = "pE" -> "aE"
      [] pk = "pX" -> "aX"
      [] pk = "pY" -> "aY"
      [] OTHER -> NoAddr

\* ------------------------------------------------------------ transactions
Core == "Core"

TxBase ==
    [id |-> "t", type |-> "Transfer", typeGroup |-> Core, senderPublicKey |-> "pX",
     recipientId |-> NoAddr, amount |-> 0, fee |-> 1,
     votes |-> << >>, payments |-> << >>, lockTransactionId |-> "nolock"]

TTransfer == [TxBase EXCEPT !.id = "t1", !.type = "Transfer", !.recipientId = "aY", !.amount = 2]
TVote == [TxBase EXCEPT !.id = "t2", !.type = "Vote", !.votes = << <<"+", "pD">> >>]
TUnvote == [TxBase EXCEPT !.id = "t3", !.type = "Vote", !.votes = << <<"-", "pD">> >>]
TLock == [TxBase EXCEPT !.id = "L1", !.type = "HtlcLock", !.recipientId = "aY", !.amount = 2]
TClaim == [TxBase EXCEPT !.id = "t5", !.type = "HtlcClaim", !.senderPublicKey = "pY",
                         !.lockTransactionId = "L1"]
TMulti ==
    [TxBase EXCEPT !.id = "t6", !.type = "MultiPayment",
                   !.payments = << [recipientId |-> "aY", amount |-> 1],
                                   [recipientId |-> "aD", amount |-> 1],
                                   [recipientId |-> "aY", amount |-> 1] >>]
TGenVote == [TxBase EXCEPT !.id = "t7", !.type = "Vote", !.senderPublicKey = "pD",
                           !.votes = << <<"+", "pE">> >>]
TGenUnvote == [TxBase EXCEPT !.id = "t8", !.type = "Vote", !.senderPublicKey = "pD",
                             !.votes = << <<"-", "pE">> >>]

Txs == {TTransfer, TVote, TUnvote, TLock, TClaim, TMulti, TGenVote, TGenUnvote}

\* the transactions of the worked examples: a lock of 400 with fee 10, its claim with
\* fee 5, a multi-payment of 100 and 50 with fee 10
ELock == [TxBase EXCEPT !.id = "L2", !.type = "HtlcLock", !.recipientId = "aY",
                        !.amount = 400, !.fee = 10]
EClaim == [TxBase EXCEPT !.id = "t9", !.type = "HtlcClaim", !.senderPublicKey = "pY",
                         !.lockTransactionId = "L2", !.fee = 5]
EMulti ==
    [TxBase EXCEPT !.id = "t10", !.type = "MultiPayment", !.fee = 10,
                   !.payments = << [recipientId |-> "aY", amount |-> 100],
                                   [recipientId |-> "aD", amount |-> 50] >>]

\* the transactions handed to applyTransaction / revertTransaction one by one
TxPool == Txs \cup {ELock, EClaim, EMulti}

\* the lock transaction a claim refers to (the handlers read it from the chain)
lockTransactionOf(lockId) == CHOOSE t \in TxPool : t.type = "HtlcLock" /\ t.id = lockId

isType(tx, t) == tx.type = t /\ tx.typeGroup = Core

RECURSIVE SeqSum(_)
SeqSum(s) == IF s = << >> THEN 0 ELSE Head(s).amount + SeqSum(Tail(s))

RECURSIVE FeeSum(_)
FeeSum(s) == IF s = << >> THEN 0 ELSE Head(s).fee + FeeSum(Tail(s))

\* transaction lists without repetition, up to MaxTxs long
TxLists ==
    UNION { { s \in [1..n -> Txs] : \A a, b \in 1..n : a # b => s[a] # s[b] } : n \in 0..MaxTxs }

BlockReward == 2

Blocks ==
    { [data |-> [id |-> "B", generatorPublicKey |-> g, height |-> h,
                 reward |-> BlockReward, totalFee |-> FeeSum(txs)],
       transactions |-> txs] :
        g \in {"pD", "pE"}, h \in {GenesisHeight, GenesisHeight + 1}, txs \in TxLists }

\* the block a delegate forged before the behaviour starts
PreviousBlock ==
    [id |-> "B0", generatorPublicKey |-> "pD", height |-> 1, reward |-> BlockReward, totalFee |-> 1]

\* ------------------------------------------------------------------ ledger
NewWallet ==
    [known |-> FALSE, publicKey |-> NoKey, balance |-> 0, vote |-> NoVote,
     isDelegate |-> FALSE, voteBalance |-> 0, producedBlocks |-> 0,
     forgedFees |-> 0, forgedRewards |-> 0, lastBlock |-> NoBlock, locks |-> {}]

Ok(L) == [ok |-> TRUE, L |-> L]
Throw(L) == [ok |-> FALSE, L |-> L]

\* WalletRepository.has(publicKey)
has(L, pk) == \E a \in Addresses : L[a].known /\ L[a].publicKey = pk

\* WalletRepository.hasByAddress(address)
hasByAddress(L, a) == a \in Addresses /\ L[a].known

\* WalletRepository.findByPublicKey: the address of the wallet; callers test `has` first
findByPublicKey(L, pk) == CHOOSE a \in Addresses : L[a].known /\ L[a].publicKey = pk

\* WalletRepository.createWallet(address): the existing entry, or a zero-balance one
createWallet(L, a) == IF L[a].known THEN L[a] ELSE NewWallet

\* WalletRepository.reindex(wallet): the wallet is entered in every index
reindex(L, a, w) == [L EXCEPT ![a] = [w EXCEPT !.known = TRUE]]

\* WalletRepository index Locks: lock id -> owning wallet
hasLock(L, lockId) == \E a \in Addresses : L[a].known /\ \E k \in L[a].locks : k.id = lockId
findByIndexLocks(L, lockId) ==
    CHOOSE a \in Addresses : L[a].known /\ \E k \in L[a].locks : k.id = lockId
lockOf(w, lockId) == CHOOSE k \in w.locks : k.id = lockId

\* Wallet.hasVoted() / hasAttribute("vote")
hasVoted(w) == w.vote # NoVote

\* ------------------------------------------- transaction effect handlers
\* Handlers.TransactionHandler of each type: balance and attribute effects.
\* A handler that cannot be applied throws before it changes anything, and
\* revert is defined exactly on the ledgers apply can produce, so that the two
\* are inverse of each other wherever one of them succeeds.
addBalance(L, a, n) == [L EXCEPT ![a].balance = @ + n]

\* a wallet touched by address for the first time is created
touch(L, a) == IF L[a].known THEN L ELSE reindex(L, a, NewWallet)

RECURSIVE payAll(_, _, _)
payAll(L, payments, sign) ==
    IF payments = << >> THEN L
    ELSE payAll(addBalance(touch(L, Head(payments).recipientId),
                           Head(payments).recipientId, sign * Head(payments).amount),
                Tail(payments), sign)

paidTo(payments, a) ==
    SeqSum(SelectSeq(payments, LAMBDA p : p.recipientId = a))

handlerApply(L, tx) ==
    IF ~has(L, tx.senderPublicKey) THEN Throw(L)
    ELSE
    LET s == findByPublicKey(L, tx.senderPublicKey) IN
    CASE tx.type = "Transfer" ->
           IF L[s].balance < tx.amount + tx.fee THEN Throw(L)
           ELSE Ok(addBalance(touch(addBalance(L, s, 0 - (tx.amount + tx.fee)), tx.recipientId),
                              tx.recipientId, tx.amount))
      [] tx.type = "Vote" ->
           LET sign == tx.votes[1][1]
               key == tx.votes[1][2] IN
           IF L[s].balance < tx.fee THEN Throw(L)
           ELSE IF sign = "+"
             THEN IF hasVoted(L[s]) \/ ~has(L, key) THEN Throw(L)
                  ELSE IF ~L[findByPublicKey(L, key)].isDelegate THEN Throw(L)
                  ELSE Ok([addBalance(L, s, 0 - tx.fee) EXCEPT ![s].vote = key])
             ELSE IF L[s].vote # key THEN Throw(L)
                  ELSE Ok([addBalance(L, s, 0 - tx.fee) EXCEPT ![s].vote = NoVote])
      [] tx.type = "HtlcLock" ->
           IF L[s].balance < tx.amount + tx.fee \/ hasLock(L, tx.id) THEN Throw(L)
           ELSE Ok([addBalance(L, s, 0 - (tx.amount + tx.fee)) EXCEPT
                       ![s].locks = @ \cup {[id |-> tx.id, amount |-> tx.amount]}])
      [] tx.type = "HtlcClaim" ->
           IF ~hasLock(L, tx.lockTransactionId) THEN Throw(L)
           ELSE LET o == findByIndexLocks(L, tx.lockTransactionId)
                    k == lockOf(L[o], tx.lockTransactionId) IN
                IF fromPublicKey(tx.senderPublicKey) # lockTransactionOf(k.id).recipientId
                THEN Throw(L)
                ELSE Ok(addBalance([L EXCEPT ![o].locks = @ \ {k}], s, k.amount - tx.fee))
      [] tx.type = "MultiPayment" ->
           IF L[s].balance < SeqSum(tx.payments) + tx.fee THEN Throw(L)
           ELSE Ok(payAll(addBalance(L, s, 0 - (SeqSum(tx.payments) + tx.fee)), tx.payments, 1))
      [] OTHER -> Throw(L)

handlerRevert(L, tx) ==
    IF ~has(L, tx.senderPublicKey) THEN Throw(L)
    ELSE
    LET s == findByPublicKey(L, tx.senderPublicKey) IN
    CASE tx.type = "Transfer" ->
           IF ~hasByAddress(L, tx.recipientId) THEN Throw(L)
           ELSE IF L[tx.recipientId].balance < tx.amount \/ L[s].balance < 0 THEN Throw(L)
           ELSE Ok(addBalance(addBalance(L, tx.recipientId, 0 - tx.amount), s, tx.amount + tx.fee))
      [] tx.type = "Vote" ->
           LET sign == tx.votes[1][1]
               key == tx.votes[1][2] IN
           IF L[s].balance < 0 THEN Throw(L)
           ELSE IF sign = "+"
             THEN IF L[s].vote # key \/ ~has(L, key) THEN Throw(L)
                  ELSE IF ~L[findByPublicKey(L, key)].isDelegate THEN Throw(L)
                  ELSE Ok([addBalance(L, s, tx.fee) EXCEPT ![s].vote = NoVote])
             ELSE IF hasVoted(L[s]) THEN Throw(L)
                  ELSE Ok([addBalance(L, s, tx.fee) EXCEPT ![s].vote = key])
      [] tx.type = "HtlcLock" ->
           IF [id |-> tx.id, amount |-> tx.amount] \notin L[s].locks \/ L[s].balance < 0
           THEN Throw(L)
           ELSE Ok([addBalance(L, s, tx.amount + tx.fee) EXCEPT
                       ![s].locks = @ \ {[id |-> tx.id, amount |-> tx.amount]}])
      [] tx.type = "HtlcClaim" ->
           LET lt == lockTransactionOf(tx.lockTransactionId) IN
           IF hasLock(L, lt.id) \/ ~has(L, lt.senderPublicKey) THEN Throw(L)
           ELSE IF L[s].balance < lt.amount - tx.fee THEN Throw(L)
           ELSE LET o == findByPublicKey(L, lt.senderPublicKey) IN
                Ok(addBalance([L EXCEPT ![o].locks = @ \cup {[id |-> lt.id, amount |-> lt.amount]}],
                              s, 0 - (lt.amount - tx.fee)))
      [] tx.type = "MultiPayment" ->
           IF \/ L[s].balance < 0
              \/ \E a \in Addresses :
                    /\ paidTo(tx.payments, a) > 0
                    /\ (~L[a].known \/ L[a].balance < paidTo(tx.payments, a))
           THEN Throw(L)
           ELSE Ok(addBalance(payAll(L, tx.payments, -1), s, SeqSum(tx.payments) + tx.fee))
      [] OTHER -> Throw(L)

\* ----------------------------------------------------- vote-balance updater
addVoteBalance(L, a, n) == [L EXCEPT ![a].voteBalance = @ + n]

\* the vote branch that reads the sender's balance with the fee put back
voteBranch_beforeFee(L, sender, tx, revert) ==
    LET sign == tx.votes[1][1]
        key == tx.votes[1][2] IN
    IF ~has(L, key) THEN Throw(L)
    ELSE LET delegate == findByPublicKey(L, key) IN
         IF sign = "+"
         THEN Ok(addVoteBalance(L, delegate,
                    IF revert THEN 0 - (L[sender].balance - tx.fee)
                              ELSE L[sender].balance + tx.fee))
         ELSE Ok(addVoteBalance(L, delegate,
                    IF revert THEN L[sender].balance ELSE 0 - (L[sender].balance + tx.fee)))

\* updateVoteBalances, vote branch: the first vote of the asset, "+key" or "-key"
voteBranch(L, sender, tx, revert) ==
    LET sign == tx.votes[1][1]
        key == tx.votes[1][2] IN
    IF ~has(L, key) THEN Throw(L)
    ELSE LET delegate == findByPublicKey(L, key) IN
         IF sign = "+"
         THEN Ok(addVoteBalance(L, delegate,
                    IF revert THEN 0 - (L[sender].balance - tx.fee) ELSE L[sender].balance))
         ELSE Ok(addVoteBalance(L, delegate,
                    IF revert THEN L[sender].balance ELSE 0 - (L[sender].balance + tx.fee)))

\* the sender's delegate loses the top-level amount + fee, for a multi-payment as well
senderBranch_topLevelAmount(L, sender, tx, lockTransaction, revert) ==
    IF ~hasVoted(L[sender]) THEN Ok(L)
    ELSE IF ~has(L, L[sender].vote) THEN Throw(L)
    ELSE
    LET delegate == findByPublicKey(L, L[sender].vote)
        total == tx.amount + tx.fee
    IN
    IF isType(tx, "HtlcLock")
    THEN Ok(addVoteBalance(L, delegate, IF revert THEN tx.fee ELSE 0 - tx.fee))
    ELSE IF isType(tx, "HtlcClaim")
    THEN Ok(addVoteBalance(L, delegate,
               IF revert THEN tx.fee - lockTransaction.amount
                         ELSE (0 - tx.fee) + lockTransaction.amount))
    ELSE Ok(addVoteBalance(L, delegate, IF revert THEN total ELSE 0 - total))

\* the sender's delegate loses amount + fee for a lock as for any other transaction
senderBranch_lockTotal(L, sender, tx, lockTransaction, revert) ==
    IF ~hasVoted(L[sender]) THEN Ok(L)
    ELSE IF ~has(L, L[sender].vote) THEN Throw(L)
    ELSE
    LET delegate == findByPublicKey(L, L[sender].vote)
        amount == IF isType(tx, "MultiPayment") THEN SeqSum(tx.payments) ELSE tx.amount
        total == amount + tx.fee
    IN
    IF isType(tx, "HtlcClaim")
    THEN Ok(addVoteBalance(L, delegate,
               IF revert THEN tx.fee - lockTransaction.amount
                         ELSE (0 - tx.fee) + lockTransaction.amount))
    ELSE Ok(addVoteBalance(L, delegate, IF revert THEN total ELSE 0 - total))

\* updateVoteBalances: the vote balance of the sender's delegate
senderBranch(L, sender, tx, lockTransaction, revert) ==
    IF ~hasVoted(L[sender]) THEN Ok(L)
    ELSE IF ~has(L, L[sender].vote) THEN Throw(L)
    ELSE
    LET delegate == findByPublicKey(L, L[sender].vote)
        amount == IF isType(tx, "MultiPayment") THEN SeqSum(tx.payments) ELSE tx.amount
        total == amount + tx.fee
    IN
    IF isType(tx, "HtlcLock")
    THEN Ok(addVoteBalance(L, delegate, IF revert THEN tx.fee ELSE 0 - tx.fee))
    ELSE IF isType(tx, "HtlcClaim")
    THEN Ok(addVoteBalance(L, delegate,
               IF revert THEN tx.fee - lockTransaction.amount
                         ELSE (0 - tx.fee) + lockTransaction.amount))
    ELSE Ok(addVoteBalance(L, delegate, IF revert THEN total ELSE 0 - total))

\* the lock owner's delegate loses the locked amount on revert as on apply
lockWalletBranch_applySign(L, tx, lockWallet, lockTransaction, revert) ==
    IF ~(isType(tx, "HtlcClaim") /\ hasVoted(L[lockWallet])) THEN Ok(L)
    ELSE IF ~has(L, L[lockWallet].vote) THEN Throw(L)
    ELSE Ok(addVoteBalance(L, findByPublicKey(L, L[lockWallet].vote),
               0 - lockTransaction.amount))

\* a claim that leaves the lock owner's delegate alone
lockWalletBranch_skip(L, tx, lockWallet, lockTransaction, revert) == Ok(L)

\* updateVoteBalances: the vote balance of the lock owner's delegate (claims only)
lockWalletBranch(L, tx, lockWallet, lockTransaction, revert) ==
    IF ~(isType(tx, "HtlcClaim") /\ hasVoted(L[lockWallet])) THEN Ok(L)
    ELSE IF ~has(L, L[lockWallet].vote) THEN Throw(L)
    ELSE Ok(addVoteBalance(L, findByPublicKey(L, L[lockWallet].vote),
               IF revert THEN lockTransaction.amount ELSE 0 - lockTransaction.amount))

\* updateVoteBalances: one pass over the payments of a multi-payment, in order
RECURSIVE paymentsLoop(_, _, _)
paymentsLoop(L, payments, revert) ==
    IF payments = << >> THEN Ok(L)
    ELSE LET recipientId == Head(payments).recipientId
             amount == Head(payments).amount IN
         IF ~hasByAddress(L, recipientId) THEN Throw(L)
         ELSE IF ~hasVoted(L[recipientId]) THEN paymentsLoop(L, Tail(payments), revert)
         ELSE IF ~has(L, L[recipientId].vote) THEN Throw(L)
         ELSE paymentsLoop(addVoteBalance(L, findByPublicKey(L, L[recipientId].vote),
                                          IF revert THEN 0 - amount ELSE amount),
                           Tail(payments), revert)

\* a multi-payment that counts each recipient once, by its first payment
multiPaymentBranch_oncePerRecipient(L, tx, revert) ==
    LET RECURSIVE first(_, _)
        first(ps, seen) ==
            IF ps = << >> THEN << >>
            ELSE IF Head(ps).recipientId \in seen THEN first(Tail(ps), seen)
            ELSE << Head(ps) >> \o first(Tail(ps), seen \cup {Head(ps).recipientId})
    IN IF isType(tx, "MultiPayment") THEN paymentsLoop(L, first(tx.payments, {}), revert)
       ELSE Ok(L)

multiPaymentBranch(L, tx, revert) ==
    IF isType(tx, "MultiPayment") THEN paymentsLoop(L, tx.payments, revert) ELSE Ok(L)

\* the recipient's delegate credited with amount + fee
recipientBranch_withFee(L, recipient, tx, revert) ==
    IF ~(recipient # NoAddr /\ hasVoted(L[recipient]) /\ ~isType(tx, "HtlcLock")) THEN Ok(L)
    ELSE IF ~has(L, L[recipient].vote) THEN Throw(L)
    ELSE Ok(addVoteBalance(L, findByPublicKey(L, L[recipient].vote),
               IF revert THEN 0 - (tx.amount + tx.fee) ELSE tx.amount + tx.fee))

\* the recipient's delegate credited for a lock creation as well
recipientBranch_lockToo(L, recipient, tx, revert) ==
    IF ~(recipient # NoAddr /\ hasVoted(L[recipient])) THEN Ok(L)
    ELSE IF ~has(L, L[recipient].vote) THEN Throw(L)
    ELSE Ok(addVoteBalance(L, findByPublicKey(L, L[recipient].vote),
               IF revert THEN 0 - tx.amount ELSE tx.amount))

\* updateVoteBalances: the vote balance of the recipient's delegate
recipientBranch(L, recipient, tx, revert) ==
    IF ~(recipient # NoAddr /\ hasVoted(L[recipient]) /\ ~isType(tx, "HtlcLock")) THEN Ok(L)
    ELSE IF ~has(L, L[recipient].vote) THEN Throw(L)
    ELSE Ok(addVoteBalance(L, findByPublicKey(L, L[recipient].vote),
               IF revert THEN 0 - tx.amount ELSE tx.amount))

updateVoteBalances(L, sender, recipient, tx, lockWallet, lockTransaction, revert) ==
    IF isType(tx, "Vote") THEN voteBranch(L, sender, tx, revert)
    ELSE
    LET r1 == senderBranch(L, sender, tx, lockTransaction, revert) IN
    IF ~r1.ok THEN r1 ELSE
    LET r2 == lockWalletBranch(r1.L, tx, lockWallet, lockTransaction, revert) IN
    IF ~r2.ok THEN r2 ELSE
    LET r3 == multiPaymentBranch(r2.L, tx, revert) IN
    IF ~r3.ok THEN r3 ELSE
    recipientBranch(r3.L, recipient, tx, revert)

\* the revert path run without the recipient
revertVoteBalances_noRecipient(L, sender, recipient, tx, lockWallet, lockTransaction) ==
    updateVoteBalances(L, sender, NoAddr, tx, lockWallet, lockTransaction, TRUE)

\* the revert path run with the apply sign
revertVoteBalances_applySign(L, sender, recipient, tx, lockWallet, lockTransaction) ==
    updateVoteBalances(L, sender, recipient, tx, lockWallet, lockTransaction, FALSE)

applyVoteBalances(L, sender, recipient, tx, lockWallet, lockTransaction) ==
    updateVoteBalances(L, sender, recipient, tx, lockWallet, lockTransaction, FALSE)

revertVoteBalances(L, sender, recipient, tx, lockWallet, lockTransaction) ==
    updateVoteBalances(L, sender, recipient, tx, lockWallet, lockTransaction, TRUE)

\* ------------------------------------------- applyTransaction / revertTransaction
\* The result names the place the call threw: "lookup" and "handler" before any
\* effect, "sender", "lock" and "votes" after the handler has run.
Res(ok, L, stage) == [ok |-> ok, L |-> L, stage |-> stage]

NoLock == [found |-> FALSE, lockWallet |-> NoAddr, lockTransaction |-> NoBlock]

\* lines 117-126 and 171-180: the owner of the claimed lock, by the Locks index, and
\* the lock record kept in its htlc.locks
lockContext(L, tx) ==
    IF isType(tx, "HtlcClaim") /\ hasLock(L, tx.lockTransactionId)
    THEN LET lockWallet == findByIndexLocks(L, tx.lockTransactionId) IN
         [found |-> TRUE, lockWallet |-> lockWallet,
          lockTransaction |-> lockOf(L[lockWallet], tx.lockTransactionId)]
    ELSE NoLock

\* applyTransaction resolves the lock in the ledger it is called on
applyTransactionLock(L, tx) == lockContext(L, tx)

\* the lock context of a revert with the locked amount lost
revertTransactionLock_noAmount(L, tx) ==
    LET c == lockContext(handlerRevert(L, tx).L, tx) IN
    IF c.found THEN [c EXCEPT !.lockTransaction.amount = 0] ELSE c

\* revertTransaction resolves the lock in the ledger its handler's revert leaves
revertTransactionLock(L, tx) == lockContext(handlerRevert(L, tx).L, tx)

\* applyTransaction with the vote-balance update run before the handler
applyTransaction_updaterFirst(L, tx) ==
    IF isType(tx, "HtlcClaim") /\ ~applyTransactionLock(L, tx).found THEN Res(FALSE, L, "lookup")
    ELSE IF ~has(L, tx.senderPublicKey) THEN Res(FALSE, L, "sender")
    ELSE
    LET lockWallet == applyTransactionLock(L, tx).lockWallet
        lockTransaction == applyTransactionLock(L, tx).lockTransaction
        sender == findByPublicKey(L, tx.senderPublicKey)
        recipient == IF tx.recipientId # NoAddr /\ hasByAddress(L, tx.recipientId)
                     THEN tx.recipientId ELSE NoAddr
        u == applyVoteBalances(L, sender, recipient, tx, lockWallet, lockTransaction)
    IN
    IF ~u.ok THEN Res(FALSE, u.L, "votes")
    ELSE LET h == handlerApply(u.L, tx) IN
         IF h.ok THEN Res(TRUE, h.L, "done") ELSE Res(FALSE, u.L, "handler")

applyTransaction(L, tx) ==
    IF isType(tx, "HtlcClaim") /\ ~applyTransactionLock(L, tx).found THEN Res(FALSE, L, "lookup")
    ELSE
    LET lockWallet == applyTransactionLock(L, tx).lockWallet
        lockTransaction == applyTransactionLock(L, tx).lockTransaction
        h == handlerApply(L, tx)
    IN
    IF ~h.ok THEN Res(FALSE, L, "handler")
    ELSE IF ~has(h.L, tx.senderPublicKey) THEN Res(FALSE, h.L, "sender")
    ELSE
    LET sender == findByPublicKey(h.L, tx.senderPublicKey)
        recipient == IF tx.recipientId # NoAddr /\ hasByAddress(h.L, tx.recipientId)
                     THEN tx.recipientId ELSE NoAddr
        u == applyVoteBalances(h.L, sender, recipient, tx, lockWallet, lockTransaction)
    IN Res(u.ok, u.L, IF u.ok THEN "done" ELSE "votes")

revertTransaction(L, tx) ==
    IF ~has(L, tx.senderPublicKey) THEN Res(FALSE, L, "lookup")
    ELSE
    LET sender == findByPublicKey(L, tx.senderPublicKey)
        recipient == IF tx.recipientId # NoAddr /\ hasByAddress(L, tx.recipientId)
                     THEN tx.recipientId ELSE NoAddr
        h == handlerRevert(L, tx)
    IN
    IF ~h.ok THEN Res(FALSE, L, "handler")
    ELSE IF isType(tx, "HtlcClaim") /\ ~revertTransactionLock(L, tx).found
    THEN Res(FALSE, h.L, "lock")
    ELSE
    LET lockWallet == revertTransactionLock(L, tx).lockWallet
        lockTransaction == revertTransactionLock(L, tx).lockTransaction
        u == revertVoteBalances(h.L, sender, recipient, tx, lockWallet, lockTransaction)
    IN Res(u.ok, u.L, IF u.ok THEN "done" ELSE "votes")

\* ------------------------------------------------ block credit and un-credit
\* applyBlockToDelegate: the balance is credited before the delegate attributes are read
isGenerator(L, wallet, data) ==
    data.generatorPublicKey = L[wallet].publicKey \/ fromPublicKey(data.generatorPublicKey) = wallet

\* the credit that does not accumulate the forged fees
applyBlockToDelegate_noFees(L, wallet, data) ==
    IF ~isGenerator(L, wallet, data) THEN [ok |-> TRUE, L |-> L, applied |-> FALSE]
    ELSE LET L1 == addBalance(L, wallet, data.reward + data.totalFee) IN
         IF ~L1[wallet].isDelegate THEN [ok |-> FALSE, L |-> L1, applied |-> FALSE]
         ELSE [ok |-> TRUE, applied |-> TRUE,
               L |-> [L1 EXCEPT ![wallet].producedBlocks = @ + 1,
                                ![wallet].forgedRewards = @ + data.reward,
                                ![wallet].lastBlock = data]]

applyBlockToDelegate(L, wallet, data) ==
    IF ~isGenerator(L, wallet, data) THEN [ok |-> TRUE, L |-> L, applied |-> FALSE]
    ELSE LET L1 == addBalance(L, wallet, data.reward + data.totalFee) IN
         IF ~L1[wallet].isDelegate THEN [ok |-> FALSE, L |-> L1, applied |-> FALSE]
         ELSE [ok |-> TRUE, applied |-> TRUE,
               L |-> [L1 EXCEPT ![wallet].producedBlocks = @ + 1,
                                ![wallet].forgedFees = @ + data.totalFee,
                                ![wallet].forgedRewards = @ + data.reward,
                                ![wallet].lastBlock = data]]

\* the un-credit that keeps the last block
revertBlockFromDelegate_keepLast(L, wallet, data) ==
    IF ~isGenerator(L, wallet, data) THEN [ok |-> TRUE, L |-> L, applied |-> FALSE]
    ELSE LET L1 == addBalance(L, wallet, 0 - (data.reward + data.totalFee)) IN
         IF ~L1[wallet].isDelegate THEN [ok |-> FALSE, L |-> L1, applied |-> FALSE]
         ELSE [ok |-> TRUE, applied |-> TRUE,
               L |-> [L1 EXCEPT ![wallet].forgedFees = @ - data.totalFee,
                                ![wallet].forgedRewards = @ - data.reward,
                                ![wallet].producedBlocks = @ - 1]]

revertBlockFromDelegate(L, wallet, data) ==
    IF ~isGenerator(L, wallet, data) THEN [ok |-> TRUE, L |-> L, applied |-> FALSE]
    ELSE LET L1 == addBalance(L, wallet, 0 - (data.reward + data.totalFee)) IN
         IF ~L1[wallet].isDelegate THEN [ok |-> FALSE, L |-> L1, applied |-> FALSE]
         ELSE [ok |-> TRUE, applied |-> TRUE,
               L |-> [L1 EXCEPT ![wallet].forgedFees = @ - data.totalFee,
                                ![wallet].forgedRewards = @ - data.reward,
                                ![wallet].producedBlocks = @ - 1,
                                ![wallet].lastBlock = NoBlock]]

\* the credit step that adds the reward alone to the voted delegate
applyBlockCredit_rewardOnly(L, delegate, data) ==
    LET c == applyBlockToDelegate(L, delegate, data) IN
    IF ~c.ok THEN Throw(c.L)
    ELSE IF ~(c.applied /\ hasVoted(c.L[delegate])) THEN Ok(c.L)
    ELSE IF ~has(c.L, c.L[delegate].vote) THEN Throw(c.L)
    ELSE Ok(addVoteBalance(c.L, findByPublicKey(c.L, c.L[delegate].vote), data.reward))

\* applyBlock, the credit step: applyBlockToDelegate, then the vote balance of the
\* delegate the generator votes for
applyBlockCredit(L, delegate, data) ==
    LET c == applyBlockToDelegate(L, delegate, data) IN
    IF ~c.ok THEN Throw(c.L)
    ELSE IF ~(c.applied /\ hasVoted(c.L[delegate])) THEN Ok(c.L)
    ELSE IF ~has(c.L, c.L[delegate].vote) THEN Throw(c.L)
    ELSE LET increase == data.reward + data.totalFee IN
         Ok(addVoteBalance(c.L, findByPublicKey(c.L, c.L[delegate].vote), increase))

\* the un-credit step that leaves the voted delegate's vote balance alone
revertBlockCredit_noVote(L, delegate, data) ==
    LET c == revertBlockFromDelegate(L, delegate, data) IN
    IF ~c.ok THEN Throw(c.L) ELSE Ok(c.L)

\* revertBlock, the un-credit step
revertBlockCredit(L, delegate, data) ==
    LET c == revertBlockFromDelegate(L, delegate, data) IN
    IF ~c.ok THEN Throw(c.L)
    ELSE IF ~(c.applied /\ hasVoted(c.L[delegate])) THEN Ok(c.L)
    ELSE IF ~has(c.L, c.L[delegate].vote) THEN Throw(c.L)
    ELSE LET decrease == data.reward + data.totalFee IN
         Ok(addVoteBalance(c.L, findByPublicKey(c.L, c.L[delegate].vote), 0 - decrease))

\* the generator's wallet created at any height
resolveGenerator_anyHeight(L, data) ==
    IF has(L, data.generatorPublicKey)
    THEN [found |-> TRUE, L |-> L, fault |-> FALSE]
    ELSE LET generator == fromPublicKey(data.generatorPublicKey) IN
         [found |-> TRUE, fault |-> FALSE,
          L |-> reindex(L, generator,
                        [createWallet(L, generator) EXCEPT
                            !.publicKey = data.generatorPublicKey])]

\* applyBlock lines 15-31: the generator's wallet; created at the genesis height,
\* a fault reported at any other height
resolveGenerator(L, data) ==
    IF has(L, data.generatorPublicKey)
    THEN [found |-> TRUE, L |-> L, fault |-> FALSE]
    ELSE LET generator == fromPublicKey(data.generatorPublicKey) IN
         IF data.height = GenesisHeight
         THEN [found |-> TRUE, fault |-> FALSE,
               L |-> reindex(L, generator,
                             [createWallet(L, generator) EXCEPT
                                 !.publicKey = data.generatorPublicKey])]
         ELSE [found |-> FALSE, L |-> L, fault |-> TRUE]

\* revertBlock with applyBlock's genesis exception
lookupGenerator_genesis(L, data) ==
    IF has(L, data.generatorPublicKey)
    THEN [found |-> TRUE, L |-> L, fault |-> FALSE]
    ELSE IF data.height = GenesisHeight
         THEN [found |-> TRUE, fault |-> FALSE,
               L |-> reindex(L, fromPublicKey(data.generatorPublicKey),
                             [createWallet(L, fromPublicKey(data.generatorPublicKey)) EXCEPT
                                 !.publicKey = data.generatorPublicKey])]
         ELSE [found |-> FALSE, L |-> L, fault |-> TRUE]

\* revertBlock lines 69-75: the generator's wallet must be known
lookupGenerator(L, data) ==
    IF has(L, data.generatorPublicKey)
    THEN [found |-> TRUE, L |-> L, fault |-> FALSE]
    ELSE [found |-> FALSE, L |-> L, fault |-> TRUE]

\* --------------------------------------------------------------- state
VARIABLES
    wallets,      \* the ledger: address -> wallet
    block,        \* the block handed to applyBlock / revertBlock
    pc,           \* position inside the running call, "idle" between calls
    op,           \* the running (or last) call: "apply", "revert", "none"
    i,            \* index of the next transaction of the loop
    done,         \* appliedTransactions / revertedTransactions
    outcome,      \* how the last call ended: "ok", "threw", "fault", "none"
    failStage,    \* where the running call failed: a transaction stage, "credit", "none"
    failIdx,      \* index of the transaction that failed, 0 if none
    faults,       \* number of app.terminate calls
    calls,        \* number of calls started
    pre,          \* ledger when the running (or last) call started
    mid,          \* ledger when the credit / un-credit step started
    prev,         \* op, outcome and pre of the call before the last one
    preFaults,    \* number of app.terminate calls when the running (or last) call started
    log,          \* the transaction-level steps of the running (or last) call, in order
    ev,           \* the last transaction-level step: kind, transaction, ledger before it
    start,        \* the ledger the behaviour started from
    chain         \* the blocks applied and not reverted, oldest first, and whether every
                  \* call so far reverted the newest of them and ended outside the
                  \* credit / un-credit step

vars == <<wallets, block, pc, op, i, done, outcome, failStage, failIdx, faults, calls,
          pre, mid, prev, preFaults, log, ev, start, chain>>

\* the sum of balances backing delegate key
backing(L, key) ==
    LET voters == {a \in Addresses : L[a].known /\ L[a].vote = key}
        RECURSIVE sum(_)
        sum(S) == IF S = {} THEN 0
                  ELSE LET a == CHOOSE x \in S : TRUE IN L[a].balance + sum(S \ {a})
    IN sum(voters)

\* The ledger before the run: delegate D has forged one block, delegate E (when the
\* ledger knows it) none; X, Y and D may back a delegate, and the key they back may
\* be one the ledger does not know. Vote balances are the sums of the backers' balances.
Ledger0(xv, yv, dv, eKnown, last) ==
    LET base ==
          [a \in Addresses |->
             CASE a = "aD" -> [NewWallet EXCEPT !.known = TRUE, !.publicKey = "pD", !.balance = 2,
                                  !.vote = dv, !.isDelegate = TRUE, !.lastBlock = last,
                                  !.producedBlocks = IF last = NoBlock THEN 0 ELSE 1,
                                  !.forgedFees = IF last = NoBlock THEN 0 ELSE last.totalFee,
                                  !.forgedRewards = IF last = NoBlock THEN 0 ELSE last.reward]
               [] a = "aE" -> IF eKnown
                              THEN [NewWallet EXCEPT !.known = TRUE, !.publicKey = "pE",
                                                     !.isDelegate = TRUE]
                              ELSE NewWallet
               [] a = "aX" -> [NewWallet EXCEPT !.known = TRUE, !.publicKey = "pX", !.balance = 5,
                                                !.vote = xv]
               [] a = "aY" -> [NewWallet EXCEPT !.known = TRUE, !.publicKey = "pY", !.balance = 1,
                                                !.vote = yv]]
    IN [a \in Addresses |->
          IF base[a].isDelegate
          THEN [base[a] EXCEPT !.voteBalance = backing(base, base[a].publicKey)]
          ELSE base[a]]

\* the chain before the run: the block delegate D forged
Chain0 == [blocks |-> << PreviousBlock >>, valid |-> TRUE]

EvNone == [kind |-> "none", ok |-> FALSE, stage |-> "none"]
PrevNone == [op |-> "none", outcome |-> "none"]

Init ==
    /\ \E xv \in {NoVote, "pD", "pE"}, yv \in {NoVote, "pE"}, dv \in {NoVote, "pE"},
          eKnown \in BOOLEAN :
          wallets = Ledger0(xv, yv, dv, eKnown, PreviousBlock)
    /\ block \in Blocks
    /\ pc = "idle" /\ op = "none" /\ i = 0 /\ done = << >>
    /\ outcome = "none" /\ failStage = "none" /\ failIdx = 0
    /\ faults = 0 /\ calls = 0
    /\ pre = wallets /\ mid = wallets
    /\ prev = PrevNone /\ ev = EvNone
    /\ preFaults = 0 /\ log = << >>
    /\ start = wallets
    /\ chain = Chain0

txs == block.transactions
data == block.data

\* a call starts: the history of the previous one is shifted
Enter(kind) ==
    /\ pc = "idle" /\ calls < MaxCalls
    /\ op' = kind /\ calls' = calls + 1
    /\ pre' = wallets /\ mid' = wallets
    /\ prev' = [op |-> op, outcome |-> outcome, pre |-> pre]
    /\ done' = << >> /\ failStage' = "none" /\ failIdx' = 0 /\ ev' = EvNone
    /\ preFaults' = faults /\ log' = << >>
    /\ block' = block /\ start' = start /\ chain' = chain

\* applyBlock, lines 15-35
applyBlockEnter ==
    /\ Enter("apply")
    /\ LET r == resolveGenerator(wallets, data) IN
         /\ wallets' = r.L
         /\ faults' = IF r.fault THEN faults + 1 ELSE faults
         /\ IF r.found
            THEN pc' = "applying" /\ outcome' = "running" /\ i' = 1
            ELSE pc' = "idle" /\ outcome' = "fault" /\ i' = 0

\* applyBlock, lines 38-41: one turn of the loop
applyBlockTransaction ==
    /\ pc = "applying" /\ i <= Len(txs)
    /\ LET r == applyTransaction(wallets, txs[i]) IN
         /\ wallets' = r.L
         /\ ev' = [kind |-> "apply", tx |-> txs[i], before |-> wallets, ok |-> r.ok,
                   stage |-> r.stage]
         /\ log' = Append(log, [kind |-> "apply", id |-> txs[i].id, ok |-> r.ok])
         /\ IF r.ok
            THEN /\ done' = Append(done, txs[i]) /\ i' = i + 1
                 /\ UNCHANGED <<pc, failStage, failIdx>>
            ELSE /\ pc' = "applyCatch" /\ failStage' = r.stage /\ failIdx' = i
                 /\ UNCHANGED <<done, i>>
    /\ UNCHANGED <<block, op, outcome, faults, calls, pre, mid, prev, preFaults, start, chain>>

\* applyBlock, lines 43-55: the credit step
applyBlockDelegate ==
    /\ pc = "applying" /\ i > Len(txs)
    /\ LET c == applyBlockCredit(wallets, findByPublicKey(wallets, data.generatorPublicKey), data) IN
         /\ wallets' = c.L
         /\ mid' = wallets
         /\ IF c.ok
            THEN pc' = "idle" /\ outcome' = "ok" /\ UNCHANGED failStage
            ELSE pc' = "applyCatch" /\ failStage' = "credit" /\ UNCHANGED outcome
         /\ chain' = IF c.ok THEN [chain EXCEPT !.blocks = Append(@, data)]
                            ELSE [chain EXCEPT !.valid = FALSE]
    /\ ev' = EvNone
    /\ UNCHANGED <<block, op, i, done, failIdx, faults, calls, pre, prev, preFaults, log, start>>

\* applyBlock, lines 56-65: revert the applied transactions from last to first, rethrow
applyBlockCatch ==
    /\ pc = "applyCatch"
    /\ IF done = << >>
       THEN /\ pc' = "idle" /\ outcome' = "threw" /\ ev' = EvNone
            /\ UNCHANGED <<wallets, done, log>>
       ELSE LET tx == done[Len(done)]
                r == revertTransaction(wallets, tx) IN
            /\ wallets' = r.L
            /\ ev' = [kind |-> "revert", tx |-> tx, before |-> wallets, ok |-> r.ok,
                      stage |-> r.stage]
            /\ log' = Append(log, [kind |-> "revert", id |-> tx.id, ok |-> r.ok])
            /\ IF r.ok
               THEN done' = SubSeq(done, 1, Len(done) - 1) /\ UNCHANGED <<pc, outcome>>
               ELSE pc' = "idle" /\ outcome' = "rethrew" /\ UNCHANGED done
    /\ UNCHANGED <<block, op, i, failStage, failIdx, faults, calls, pre, mid, prev, preFaults, start, chain>>

\* revertBlock, lines 69-76
revertBlockEnter ==
    /\ Enter("revert")
    /\ LET r == lookupGenerator(wallets, data) IN
         /\ wallets' = r.L
         /\ faults' = IF r.fault THEN faults + 1 ELSE faults
         /\ IF r.found
            THEN pc' = "reverting" /\ outcome' = "running" /\ i' = Len(txs)
            ELSE pc' = "idle" /\ outcome' = "fault" /\ i' = 0

\* revertBlock, lines 80-84: one turn of the loop, last transaction first
revertBlockTransaction ==
    /\ pc = "reverting" /\ i >= 1
    /\ LET r == revertTransaction(wallets, txs[i]) IN
         /\ wallets' = r.L
         /\ ev' = [kind |-> "revert", tx |-> txs[i], before |-> wallets, ok |-> r.ok,
                   stage |-> r.stage]
         /\ log' = Append(log, [kind |-> "revert", id |-> txs[i].id, ok |-> r.ok])
         /\ IF r.ok
            THEN /\ done' = Append(done, txs[i]) /\ i' = i - 1
                 /\ UNCHANGED <<pc, failStage, failIdx>>
            ELSE /\ pc' = "revertCatch" /\ failStage' = r.stage /\ failIdx' = i
                 /\ UNCHANGED <<done, i>>
    /\ UNCHANGED <<block, op, outcome, faults, calls, pre, mid, prev, preFaults, start, chain>>

\* revertBlock, lines 86-98: the un-credit step
revertBlockDelegate ==
    /\ pc = "reverting" /\ i = 0
    /\ LET c == revertBlockCredit(wallets, findByPublicKey(wallets, data.generatorPublicKey), data) IN
         /\ wallets' = c.L
         /\ mid' = wallets
         /\ IF c.ok
            THEN pc' = "idle" /\ outcome' = "ok" /\ UNCHANGED failStage
            ELSE pc' = "revertCatch" /\ failStage' = "credit" /\ UNCHANGED outcome
         /\ chain' = IF c.ok /\ chain.blocks # << >> /\ chain.blocks[Len(chain.blocks)] = data
                     THEN [chain EXCEPT !.blocks = SubSeq(@, 1, Len(@) - 1)]
                     ELSE [chain EXCEPT !.valid = FALSE]
    /\ ev' = EvNone
    /\ UNCHANGED <<block, op, i, done, failIdx, faults, calls, pre, prev, preFaults, log, start>>

\* revertBlock, lines 99-107: re-apply the reverted transactions in list order, rethrow
revertBlockCatch ==
    /\ pc = "revertCatch"
    /\ IF done = << >>
       THEN /\ pc' = "idle" /\ outcome' = "threw" /\ ev' = EvNone
            /\ UNCHANGED <<wallets, done, log>>
       ELSE LET tx == done[Len(done)]
                r == applyTransaction(wallets, tx) IN
            /\ wallets' = r.L
            /\ ev' = [kind |-> "apply", tx |-> tx, before |-> wallets, ok |-> r.ok,
                      stage |-> r.stage]
            /\ log' = Append(log, [kind |-> "apply", id |-> tx.id, ok |-> r.ok])
            /\ IF r.ok
               THEN done' = SubSeq(done, 1, Len(done) - 1) /\ UNCHANGED <<pc, outcome>>
               ELSE pc' = "idle" /\ outcome' = "rethrew" /\ UNCHANGED done
    /\ UNCHANGED <<block, op, i, failStage, failIdx, faults, calls, pre, mid, prev, preFaults, start, chain>>

Next ==
    \/ applyBlockEnter
    \/ applyBlockTransaction
    \/ applyBlockDelegate
    \/ applyBlockCatch
    \/ revertBlockEnter
    \/ revertBlockTransaction
    \/ revertBlockDelegate
    \/ revertBlockCatch

Spec == Init /\ [][Next]_vars

\* ------------------------------------- applyTransaction / revertTransaction alone
\* The two public operations called directly, one transaction at a time: any
\* transaction may be applied, and the transaction applied last and not yet reverted
\* may be reverted; a call that throws ends the run. `done` is the stack of the
\* applied transactions, each with the lock context its apply used; `pre` is the
\* ledger before the last apply.
LedgerTx(xb, xv, yb, yv, yKnown) ==
    LET base ==
          [a \in Addresses |->
             CASE a = "aD" -> [NewWallet EXCEPT !.known = TRUE, !.publicKey = "pD",
                                                !.isDelegate = TRUE]
               [] a = "aE" -> [NewWallet EXCEPT !.known = TRUE, !.publicKey = "pE",
                                                !.isDelegate = TRUE]
               [] a = "aX" -> [NewWallet EXCEPT !.known = TRUE, !.publicKey = "pX",
                                                !.balance = xb, !.vote = xv]
               [] a = "aY" -> IF yKnown
                              THEN [NewWallet EXCEPT !.known = TRUE, !.publicKey = "pY",
                                                     !.balance = yb, !.vote = yv]
                              ELSE NewWallet]
    IN [a \in Addresses |->
          IF base[a].isDelegate
          THEN [base[a] EXCEPT !.voteBalance = backing(base, base[a].publicKey)]
          ELSE base[a]]

InitTx ==
    /\ \E xb \in {5, 1000}, xv \in {NoVote, "pD", "pE"}, yb \in {0, 1},
          yv \in {NoVote, "pD", "pE"}, yKnown \in BOOLEAN :
          wallets = LedgerTx(xb, xv, yb, yv, yKnown)
    /\ block = [data |-> [id |-> "B", generatorPublicKey |-> "pD", height |-> GenesisHeight,
                          reward |-> BlockReward, totalFee |-> 0],
                transactions |-> << >>]
    /\ pc = "transactions" /\ op = "none" /\ i = 0 /\ done = << >>
    /\ outcome = "none" /\ failStage = "none" /\ failIdx = 0
    /\ faults = 0 /\ calls = 0
    /\ pre = wallets /\ mid = wallets
    /\ prev = PrevNone /\ ev = EvNone
    /\ preFaults = 0 /\ log = << >>
    /\ start = wallets
    /\ chain = Chain0

applyTransactionCall ==
    /\ pc = "transactions" /\ calls < MaxSteps
    /\ \E tx \in TxPool :
         LET r == applyTransaction(wallets, tx)
             lock == applyTransactionLock(wallets, tx) IN
         /\ wallets' = r.L
         /\ pre' = wallets
         /\ ev' = [kind |-> "apply", tx |-> tx, before |-> wallets, ok |-> r.ok,
                   stage |-> r.stage, lock |-> lock, applied |-> lock]
         /\ log' = Append(log, [kind |-> "apply", id |-> tx.id, ok |-> r.ok])
         /\ done' = IF r.ok THEN Append(done, [tx |-> tx, lock |-> lock]) ELSE done
         /\ pc' = IF r.ok THEN pc ELSE "failed"
    /\ calls' = calls + 1
    /\ UNCHANGED <<block, op, i, outcome, failStage, failIdx, faults, mid, prev,
                   preFaults, start, chain>>

revertTransactionCall ==
    /\ pc = "transactions" /\ calls < MaxSteps /\ done # << >>
    /\ LET top == done[Len(done)]
           r == revertTransaction(wallets, top.tx) IN
         /\ wallets' = r.L
         /\ ev' = [kind |-> "revert", tx |-> top.tx, before |-> wallets, ok |-> r.ok,
                   stage |-> r.stage, lock |-> revertTransactionLock(wallets, top.tx),
                   applied |-> top.lock]
         /\ log' = Append(log, [kind |-> "revert", id |-> top.tx.id, ok |-> r.ok])
         /\ done' = IF r.ok THEN SubSeq(done, 1, Len(done) - 1) ELSE done
         /\ pc' = IF r.ok THEN pc ELSE "failed"
    /\ calls' = calls + 1
    /\ UNCHANGED <<block, op, i, outcome, failStage, failIdx, faults, pre, mid, prev,
                   preFaults, start, chain>>

NextTx ==
    \/ applyTransactionCall
    \/ revertTransactionCall

SpecTx == InitTx /\ [][NextTx]_vars

\* ------------------------------------------------------------ observations
\* balance and attributes of a wallet (not its place in the indices)
Values(w) == [w EXCEPT !.known = TRUE, !.publicKey = NoKey]
SameLedger(L1, L2) == \A a \in Addresses : Values(L1[a]) = Values(L2[a])

generator == fromPublicKey(data.generatorPublicKey)
credit == data.reward + data.totalFee

Ended(kind) == pc = "idle" /\ op = kind
Failed(kind) == Ended(kind) /\ outcome \in {"threw", "rethrew"}
Succeeded(kind) == Ended(kind) /\ outcome = "ok"

RECURSIVE SetSum(_, _)
SetSum(L, S) ==
    IF S = {} THEN 0
    ELSE LET a == CHOOSE x \in S : TRUE IN L[a].voteBalance + SetSum(L, S \ {a})
TotalVoteBalance(L) == SetSum(L, Addresses)

backsValidator(L, a) ==
    /\ a \in Addresses /\ L[a].known /\ hasVoted(L[a])
    /\ has(L, L[a].vote) /\ L[findByPublicKey(L, L[a].vote)].isDelegate

\* C1: a successful applyBlock(B) followed by a successful revertBlock(B), from a
\* ledger that knows B's generator, leaves every wallet's balance and attributes as
\* they were before the applyBlock.
C1_RoundTrip ==
    (Succeeded("revert") /\ prev.op = "apply" /\ prev.outcome = "ok"
        /\ has(prev.pre, data.generatorPublicKey))
    => SameLedger(wallets, prev.pre)

\* C2: when the handler's apply of a transaction throws, the ledger after the failed
\* applyBlock equals the ledger before the call.
C2_ApplyAtomic ==
    (Failed("apply") /\ failStage = "handler") => SameLedger(wallets, pre)

C2_Witness ==
    /\ Failed("apply") /\ failStage = "handler" /\ failIdx = 2
    /\ Len(log) = 3 /\ log[3].kind = "revert" /\ log[3].ok
    /\ \E a \in Addresses : pre[a].voteBalance > 0

\* C3: when applyTransaction throws after its handler has run, the ledger after the
\* failed applyBlock equals the ledger before the call.
C3_NoPartialTransaction ==
    (Failed("apply") /\ failStage \in {"sender", "votes"}) => SameLedger(wallets, pre)

\* C4: when a transaction's revert throws during revertBlock, the transactions
\* reverted so far are re-applied in list order and the ledger after the failed
\* revertBlock equals the ledger before the call.
ReappliedForward ==
    \A m, n \in 1..Len(log) :
        (m < n /\ log[m].kind = "apply" /\ log[n].kind = "apply") =>
            \E a, b \in 1..Len(txs) : a < b /\ txs[a].id = log[m].id /\ txs[b].id = log[n].id

C4_RevertAtomic ==
    (Failed("revert") /\ failStage # "credit") =>
        /\ ReappliedForward
        /\ Len(SelectSeq(log, LAMBDA e : e.kind = "apply")) = Len(txs) - failIdx
        /\ SameLedger(wallets, pre)

\* C5: applyBlock with a generator key the ledger does not know: at the genesis
\* height the generator's wallet is created, bound to the key and indexed, and no
\* fault is reported; at any other height the fault is reported, no transaction is
\* applied and the ledger is left as it was.
C5_Genesis ==
    (op = "apply" /\ ~has(pre, data.generatorPublicKey)) =>
        IF data.height = GenesisHeight
        THEN /\ hasByAddress(wallets, generator)
             /\ has(wallets, data.generatorPublicKey)
             /\ findByPublicKey(wallets, data.generatorPublicKey) = generator
             /\ wallets[generator].publicKey = data.generatorPublicKey
             /\ faults = preFaults
        ELSE /\ pc = "idle" /\ outcome = "fault" /\ faults = preFaults + 1
             /\ log = << >> /\ wallets = pre

C5_Witness ==
    /\ op = "apply" /\ ~has(pre, data.generatorPublicKey) /\ data.height = GenesisHeight
    /\ Len(log) > 0 /\ log[1].ok

\* C6: revertBlock with a generator key the ledger does not know reports the fault,
\* reverts no transaction and leaves the ledger as it was, at every height.
C6_RevertUnknownGenerator ==
    (op = "revert" /\ ~has(pre, data.generatorPublicKey)) =>
        /\ pc = "idle" /\ outcome = "fault" /\ faults = preFaults + 1
        /\ log = << >> /\ wallets = pre

C6_Witness ==
    /\ op = "revert" /\ ~has(pre, data.generatorPublicKey) /\ data.height = GenesisHeight
    /\ Len(txs) > 0 /\ outcome = "fault"

\* C7: a successful applyBlock credits the generator, relative to the ledger reached
\* when all transactions were applied, with reward + totalFee, one produced block,
\* totalFee forged fees, reward forged rewards, and records the block as lastBlock;
\* when a transaction failed, none of the five is changed by the call.
Credited ==
    /\ wallets[generator].balance = mid[generator].balance + data.reward + data.totalFee
    /\ wallets[generator].producedBlocks = mid[generator].producedBlocks + 1
    /\ wallets[generator].forgedFees = mid[generator].forgedFees + data.totalFee
    /\ wallets[generator].forgedRewards = mid[generator].forgedRewards + data.reward
    /\ wallets[generator].lastBlock = data

ProductionOf(w) ==
    <<w.balance, w.producedBlocks, w.forgedFees, w.forgedRewards, w.lastBlock>>

C7_Credit ==
    /\ Succeeded("apply") => Credited
    /\ (Failed("apply") /\ failStage # "credit") =>
           ProductionOf(wallets[generator]) = ProductionOf(pre[generator])


\* C8: a successful revertBlock takes reward + totalFee off the generator's balance,
\* one off producedBlocks, totalFee off forgedFees, reward off forgedRewards, and
\* leaves lastBlock undefined, whatever it was before.
C8_Uncredit ==
    Succeeded("revert") =>
        /\ wallets[generator].balance = mid[generator].balance - (data.reward + data.totalFee)
        /\ wallets[generator].producedBlocks = mid[generator].producedBlocks - 1
        /\ wallets[generator].forgedFees = mid[generator].forgedFees - data.totalFee
        /\ wallets[generator].forgedRewards = mid[generator].forgedRewards - data.reward
        /\ wallets[generator].lastBlock = NoBlock

C8_Witness ==
    /\ Succeeded("revert") /\ prev.op = "apply" /\ prev.outcome = "ok"
    /\ prev.pre[generator].lastBlock = PreviousBlock
    /\ mid[generator].lastBlock = data
    /\ Len(txs) > 0

\* C9: the credit step adds reward + totalFee to the vote balance of the delegate the
\* generator votes for at that moment, the un-credit step takes it off, and neither
\* changes any other vote balance (none at all when the generator has no vote).
votedDelegate(L) ==
    IF hasVoted(L[generator]) /\ has(L, L[generator].vote)
    THEN findByPublicKey(L, L[generator].vote) ELSE NoAddr

C9_GeneratorVote ==
    /\ Succeeded("apply") =>
         \A a \in Addresses :
            wallets[a].voteBalance =
               mid[a].voteBalance + (IF a = votedDelegate(mid) THEN credit ELSE 0)
    /\ Succeeded("revert") =>
         \A a \in Addresses :
            wallets[a].voteBalance =
               mid[a].voteBalance - (IF a = votedDelegate(mid) THEN credit ELSE 0)

C9_Witness ==
    /\ Succeeded("revert") /\ prev.op = "apply" /\ prev.outcome = "ok"
    /\ votedDelegate(mid) # NoAddr /\ Len(txs) > 0
    /\ wallets[votedDelegate(mid)].voteBalance = mid[votedDelegate(mid)].voteBalance - credit

\* C10: a transfer, multi-payment, lock or claim whose sender and receivers of value
\* all back validators changes the sum of all vote balances by minus its fee when it
\* is applied and by plus its fee when it is reverted.
Conserving(L, tx) ==
    /\ ~isType(tx, "Vote")
    /\ backsValidator(L, fromPublicKey(tx.senderPublicKey))
    /\ isType(tx, "Transfer") => backsValidator(L, tx.recipientId)
    /\ isType(tx, "MultiPayment") =>
          \A k \in 1..Len(tx.payments) : backsValidator(L, tx.payments[k].recipientId)
    /\ isType(tx, "HtlcClaim") =>
          backsValidator(L, fromPublicKey(lockTransactionOf(tx.lockTransactionId).senderPublicKey))

C10_Conservation ==
    (ev.kind # "none" /\ ev.ok /\ Conserving(ev.before, ev.tx)) =>
        TotalVoteBalance(wallets) - TotalVoteBalance(ev.before) =
            (IF ev.kind = "apply" THEN 0 - ev.tx.fee ELSE ev.tx.fee)

C10_Witness ==
    /\ ev.kind = "apply" /\ ev.ok /\ Conserving(ev.before, ev.tx)
    /\ isType(ev.tx, "HtlcClaim")
    /\ ev.before["aX"].vote # ev.before["aY"].vote

\* ---------------------------------------------- the vote-balance rules, step by step
\* the last step was a successful applyTransaction / revertTransaction
Stepped == ev.kind # "none" /\ ev.ok
SteppedType(t) == Stepped /\ isType(ev.tx, t)
Sign == IF ev.kind = "apply" THEN 1 ELSE 0 - 1

\* the change the last step made to the vote balance of wallet d
Delta(d) == wallets[d].voteBalance - ev.before[d].voteBalance

\* wallet a backs the delegate kept in wallet d
backs(a, d) ==
    /\ a \in Addresses /\ wallets[a].known /\ hasVoted(wallets[a])
    /\ wallets[d].known /\ wallets[d].publicKey = wallets[a].vote

senderOf(tx) == fromPublicKey(tx.senderPublicKey)

\* the steps of the run so far, and whether all of them succeeded
Path == [k \in 1..Len(log) |-> <<log[k].kind, log[k].id>>]
AllOk == \A k \in 1..Len(log) : log[k].ok

\* C11: from S with balance 1000 backing D, V(D) = 1000, and claimer C backing E,
\* V(E) = 0: the lock of 400 with fee 10 leaves S.balance = 590 and V(D) = 990; the
\* claim with fee 5 changes V(E) by +395 and V(D) by -400; reverting the claim and
\* then the lock restores S.balance = 1000, V(D) = 1000 and V(E) = 0.
LockExample ==
    /\ start["aX"].balance = 1000 /\ start["aX"].vote = "pD" /\ start["aD"].voteBalance = 1000
    /\ start["aY"].known /\ start["aY"].vote = "pE" /\ start["aE"].voteBalance = 0

C11_LockRoundTrip ==
    (LockExample /\ AllOk) =>
        /\ Path = << <<"apply", "L2">> >> =>
              wallets["aX"].balance = 590 /\ wallets["aD"].voteBalance = 990
        /\ Path = << <<"apply", "L2">>, <<"apply", "t9">> >> =>
              /\ wallets["aE"].voteBalance = pre["aE"].voteBalance + 400 - 5
              /\ wallets["aD"].voteBalance = pre["aD"].voteBalance - 400
              /\ pre["aX"].balance = 590 /\ pre["aD"].voteBalance = 990
        /\ Path = << <<"apply", "L2">>, <<"apply", "t9">>, <<"revert", "t9">>, <<"revert", "L2">> >> =>
              /\ wallets["aX"].balance = 1000
              /\ wallets["aD"].voteBalance = 1000
              /\ wallets["aE"].voteBalance = 0

C11_Witness ==
    /\ LockExample /\ AllOk
    /\ Path = << <<"apply", "L2">>, <<"apply", "t9">>, <<"revert", "t9">>, <<"revert", "L2">> >>
    /\ wallets["aX"].balance = 1000 /\ wallets["aX"].locks = {}

\* the last two steps applied and then reverted transaction id, both with success
RoundTripOf(id) ==
    /\ Len(log) >= 2
    /\ log[Len(log) - 1] = [kind |-> "apply", id |-> id, ok |-> TRUE]
    /\ log[Len(log)] = [kind |-> "revert", id |-> id, ok |-> TRUE]

SameVoteBalances(L1, L2) == \A a \in Addresses : L1[a].voteBalance = L2[a].voteBalance

\* what the sender's delegate loses by a transfer or a multi-payment
sentBy(tx) == (IF isType(tx, "MultiPayment") THEN SeqSum(tx.payments) ELSE tx.amount) + tx.fee
\* the payments of a multi-payment whose recipient backs d, repeated recipients included
paidToBackers(tx, d) == SeqSum(SelectSeq(tx.payments, LAMBDA p : backs(p.recipientId, d)))

\* C12: a multi-payment adds each payment's amount to the vote balance of the delegate
\* its recipient backs, once per payment, and nothing for a recipient without a vote;
\* the revert subtracts the same amounts. Paying 100 to A (backing E) and 50 to B (no
\* vote) raises V(E) by exactly 100, and the revert restores it.
C12_MultiPayment ==
    /\ SteppedType("MultiPayment") =>
          \A d \in Addresses :
             Delta(d) + Sign * (IF backs(senderOf(ev.tx), d) THEN sentBy(ev.tx) ELSE 0)
                = Sign * paidToBackers(ev.tx, d)
    /\ (SteppedType("MultiPayment") /\ ev.tx = EMulti /\ backs("aY", "aE")
           /\ ~backs("aX", "aE") /\ ~hasVoted(wallets["aD"])) =>
          Delta("aE") = Sign * 100
    /\ RoundTripOf(EMulti.id) => SameVoteBalances(wallets, pre)

C12_Witness ==
    /\ SteppedType("MultiPayment") /\ ev.tx = TMulti /\ ev.kind = "revert"
    /\ backs("aY", "aE") /\ backs("aX", "aD")
    /\ Delta("aE") = 0 - 2 /\ Delta("aD") = 3 + 1

\* the delegate named by a vote transaction, and the sign of the vote
votedKey(tx) == tx.votes[1][2]
votedSign(tx) == tx.votes[1][1]
votedWallet(tx) == findByPublicKey(wallets, votedKey(tx))

\* C13: a vote "+D" adds the sender's balance, read after the handler ran, to V(D),
\* and its revert subtracts that balance, read after the handler's revert, less the
\* fee; an unvote "-D" subtracts the post-handler balance plus the fee and its revert
\* adds the balance read after the handler's revert; no other vote balance changes,
\* and apply followed by revert of a vote or unvote leaves V(D) as it was.
C13_Vote ==
    /\ SteppedType("Vote") =>
          LET balance == wallets[senderOf(ev.tx)].balance
              fee == ev.tx.fee
              expected ==
                 IF votedSign(ev.tx) = "+"
                 THEN (IF ev.kind = "apply" THEN balance ELSE 0 - (balance - fee))
                 ELSE (IF ev.kind = "apply" THEN 0 - (balance + fee) ELSE balance)
          IN \A d \in Addresses :
                Delta(d) = IF d = votedWallet(ev.tx) THEN expected ELSE 0
    /\ \A tx \in TxPool :
          (isType(tx, "Vote") /\ RoundTripOf(tx.id)) => SameVoteBalances(wallets, pre)

C13_Witness ==
    /\ RoundTripOf(TUnvote.id) /\ ev.tx = TUnvote
    /\ Len(log) = 3 /\ log[1] = [kind |-> "apply", id |-> TVote.id, ok |-> TRUE]
    /\ Delta("aD") = start["aX"].balance - TVote.fee /\ Delta("aD") > 0

\* a transaction that is neither a vote, a lock creation nor a lock claim
Generic(tx) == ~isType(tx, "Vote") /\ ~isType(tx, "HtlcLock") /\ ~isType(tx, "HtlcClaim")
\* the top-level amount, when the transaction's recipient is known and backs d
receivedBy(tx, d) == IF tx.recipientId # NoAddr /\ backs(tx.recipientId, d) THEN tx.amount ELSE 0
\* the sum of the payments of a multi-payment, the top-level amount of any other kind
amountOf(tx) == IF isType(tx, "MultiPayment") THEN SeqSum(tx.payments) ELSE tx.amount

\* C14: for a transaction that is neither a vote, a lock creation nor a lock claim,
\* the delegate the sender backs loses amount + fee on apply and gains it on revert,
\* the amount of a multi-payment being the sum of its payments; nothing changes on
\* the sender's behalf when the sender backs no delegate.
C14_GenericSender ==
    (Stepped /\ Generic(ev.tx)) =>
        \A d \in Addresses :
           Delta(d) - Sign * (receivedBy(ev.tx, d) + paidToBackers(ev.tx, d))
              = IF backs(senderOf(ev.tx), d)
                THEN 0 - Sign * (amountOf(ev.tx) + ev.tx.fee)
                ELSE 0

C14_Witness ==
    /\ Stepped /\ ev.tx = EMulti /\ ev.kind = "apply"
    /\ backs("aX", "aD") /\ backs("aY", "aD")
    /\ Delta("aD") = 0 - 60 /\ ev.tx.amount = 0

\* C15: a lock creation takes only the fee off the vote balance of the delegate the
\* sender backs, and its revert puts only the fee back; the vote balance of the
\* delegate the lock's recipient backs is changed by neither.
C15_LockCreation ==
    SteppedType("HtlcLock") =>
        \A d \in Addresses :
           Delta(d) = IF backs(senderOf(ev.tx), d) THEN 0 - Sign * ev.tx.fee ELSE 0

C15_Witness ==
    /\ SteppedType("HtlcLock") /\ ev.tx = ELock /\ ev.kind = "revert"
    /\ backs("aX", "aD") /\ backs(ev.tx.recipientId, "aE")
    /\ Delta("aD") = 10 /\ Delta("aE") = 0
    /\ wallets["aX"].balance = ev.before["aX"].balance + 410

\* the lock a claim refers to: its amount and the wallet that created it
lockedAmount(tx) == lockTransactionOf(tx.lockTransactionId).amount
lockOwner(tx) == senderOf(lockTransactionOf(tx.lockTransactionId))

\* C16: a claim takes its fee off and adds the locked amount to the vote balance of
\* the delegate the claimer backs, and takes the locked amount off that of the
\* delegate the lock owner backs; the revert does the inverse; each side applies
\* whether or not the other wallet has a vote, and a delegate backed by both changes
\* by exactly minus the fee on apply.
C16_LockClaim ==
    SteppedType("HtlcClaim") =>
        /\ \A d \in Addresses :
              Delta(d) = Sign * ((IF backs(senderOf(ev.tx), d)
                                  THEN lockedAmount(ev.tx) - ev.tx.fee ELSE 0)
                                 - (IF backs(lockOwner(ev.tx), d)
                                    THEN lockedAmount(ev.tx) ELSE 0))
        /\ \A d \in Addresses :
              (ev.kind = "apply" /\ backs(senderOf(ev.tx), d) /\ backs(lockOwner(ev.tx), d))
                 => Delta(d) = 0 - ev.tx.fee

C16_Witness ==
    /\ SteppedType("HtlcClaim") /\ ev.tx = EClaim /\ ev.kind = "revert"
    /\ backs("aY", "aD") /\ ~hasVoted(wallets["aX"])
    /\ Delta("aD") = 5 - 400
    /\ Len(log) = 3 /\ log[2] = [kind |-> "apply", id |-> EClaim.id, ok |-> TRUE]

\* what apply does to the vote balance of d on behalf of the sender, the lock owner
\* and the payment recipients of a transaction that is not a vote nor a lock creation
otherShares(tx, d) ==
    (IF backs(senderOf(tx), d)
     THEN (IF isType(tx, "HtlcClaim") THEN lockedAmount(tx) - tx.fee
           ELSE 0 - (amountOf(tx) + tx.fee))
     ELSE 0)
    - (IF isType(tx, "HtlcClaim") /\ backs(lockOwner(tx), d) THEN lockedAmount(tx) ELSE 0)
    + paidToBackers(tx, d)

\* C17: for a transaction that is neither a vote nor a lock creation, a recipient the
\* ledger knows and that backs D adds the top-level amount to V(D) on apply and takes
\* it off on revert; with no recipient, or a recipient without a vote, no vote balance
\* changes on the recipient's behalf.
C17_Recipient ==
    (Stepped /\ ~isType(ev.tx, "Vote") /\ ~isType(ev.tx, "HtlcLock")) =>
        \A d \in Addresses :
           Delta(d) - Sign * otherShares(ev.tx, d) =
              IF /\ ev.tx.recipientId # NoAddr /\ hasByAddress(wallets, ev.tx.recipientId)
                 /\ backs(ev.tx.recipientId, d)
              THEN Sign * ev.tx.amount
              ELSE 0

C17_Witness ==
    /\ Stepped /\ ev.tx = TTransfer /\ ev.kind = "revert"
    /\ backs(ev.tx.recipientId, "aE") /\ backs("aX", "aD")
    /\ Delta("aE") = 0 - 2 /\ Delta("aD") = 3

\* ------------------------------------------------ the order of the steps of a call
Applies == SelectSeq(log, LAMBDA e : e.kind = "apply")
Reverts == SelectSeq(log, LAMBDA e : e.kind = "revert")
OkApplies == SelectSeq(log, LAMBDA e : e.kind = "apply" /\ e.ok)
OkReverts == SelectSeq(log, LAMBDA e : e.kind = "revert" /\ e.ok)
Ids(s) == [k \in 1..Len(s) |-> s[k].id]
Reverse(s) == [k \in 1..Len(s) |-> s[Len(s) + 1 - k]]

\* applyBlock starts the transactions in list order, each after the one before it
\* succeeded, and reverts only after its last apply
ForwardOrder ==
    /\ \A k \in 1..Len(Applies) :
          Applies[k].id = txs[k].id /\ (k < Len(Applies) => Applies[k].ok)
    /\ log = Applies \o Reverts

\* revertBlock reverts the transactions from last to first, and re-applies only after
\* its last revert
BackwardOrder ==
    /\ \A k \in 1..Len(Reverts) :
          Reverts[k].id = txs[Len(txs) + 1 - k].id /\ (k < Len(Reverts) => Reverts[k].ok)
    /\ log = Reverts \o Applies

\* the failed applyBlock reverted exactly what it had applied, last first, and threw
\* the error that made it fail
RolledBack ==
    /\ outcome = "threw"
    /\ Ids(Reverts) = Reverse(Ids(OkApplies))
    /\ \A k \in 1..Len(Reverts) : Reverts[k].ok

\* C18: applyBlock applies the transactions strictly in list order, one at a time;
\* revertBlock reverts them strictly last to first; a failed applyBlock reverts
\* exactly the transactions it applied, each once, in the reverse order, and then
\* propagates the original error.
C18_Ordering ==
    /\ op = "apply" => ForwardOrder
    /\ op = "revert" => BackwardOrder
    /\ Failed("apply") => RolledBack

\* ------------------------------------------------ handler first, updater second
\* the ledger the handler of the last step left, before the vote-balance update
afterHandler ==
    IF ev.kind = "apply" THEN handlerApply(ev.before, ev.tx) ELSE handlerRevert(ev.before, ev.tx)

\* a wallet without its vote balance
NoVoteBalance(w) == [w EXCEPT !.voteBalance = 0]

\* C19: the vote-balance update of applyTransaction and revertTransaction runs after
\* the handler has completed: the ledger after the step is the handler's ledger with
\* vote balances changed only, a vote or unvote is weighed with the sender's balance
\* as the handler left it, and no vote balance changes when the handler throws.
C19_UpdaterAfterHandler ==
    /\ Stepped =>
          /\ afterHandler.ok
          /\ \A a \in Addresses : NoVoteBalance(wallets[a]) = NoVoteBalance(afterHandler.L[a])
    /\ SteppedType("Vote") =>
          LET balance == afterHandler.L[senderOf(ev.tx)].balance
              weight == IF votedSign(ev.tx) = "+"
                        THEN (IF ev.kind = "apply" THEN balance ELSE 0 - (balance - ev.tx.fee))
                        ELSE (IF ev.kind = "apply" THEN 0 - (balance + ev.tx.fee) ELSE balance)
          IN /\ balance # ev.before[senderOf(ev.tx)].balance
             /\ Delta(votedWallet(ev.tx)) = weight
    /\ (ev.kind # "none" /\ ~ev.ok /\ ev.stage = "handler") =>
          /\ ~afterHandler.ok
          /\ SameVoteBalances(wallets, ev.before)

C19_Witness ==
    /\ SteppedType("Vote") /\ ev.tx = TVote /\ ev.kind = "apply"
    /\ ev.before["aX"].balance = 1000
    /\ Delta("aD") = 999 /\ wallets["aX"].vote = "pD"

\* ------------------------------------------------------ the lock context of a claim
\* C20 as stated: for a claim, apply and revert alike resolve the lock owner and the
\* lock record in the ledger as it is before the handler is invoked, and the revert
\* uses the lock owner and locked amount its apply used.
C20_LockBeforeHandler ==
    SteppedType("HtlcClaim") =>
        /\ ev.lock.found
        /\ ev.lock = lockContext(ev.before, ev.tx)
        /\ ev.lock = ev.applied

\* C20: applyTransaction resolves the lock owner and the lock record of a claim
\* before its handler is invoked (and throws without invoking it when there is no
\* such lock); revertTransaction resolves them after the handler's revert has put the
\* lock back, the ledger before it holding no such lock; the lock owner and locked
\* amount of the revert are those its apply used.
C20_LockContext ==
    /\ (SteppedType("HtlcClaim") /\ ev.kind = "apply") =>
          /\ ev.lock.found
          /\ ev.lock = lockContext(ev.before, ev.tx)
          /\ ~lockContext(wallets, ev.tx).found
    /\ (ev.kind = "apply" /\ isType(ev.tx, "HtlcClaim")
           /\ ~lockContext(ev.before, ev.tx).found) =>
          ~ev.ok /\ ev.stage = "lookup" /\ wallets = ev.before
    /\ (SteppedType("HtlcClaim") /\ ev.kind = "revert") =>
          /\ ev.lock.found
          /\ ~lockContext(ev.before, ev.tx).found
          /\ ev.lock = lockContext(wallets, ev.tx)
          /\ ev.lock.lockWallet = ev.applied.lockWallet
          /\ ev.lock.lockTransaction.amount = ev.applied.lockTransaction.amount

C20_Witness ==
    /\ SteppedType("HtlcClaim") /\ ev.kind = "revert" /\ ev.tx = EClaim
    /\ ev.lock.lockWallet = "aX" /\ ev.lock.lockTransaction.amount = 400
    /\ hasVoted(wallets["aX"]) /\ hasVoted(wallets["aY"])

\* ------------------------------------------- failures of the credit and un-credit
\* C21: when every transaction of the block applied and the credit step throws (the
\* generator has no delegate attributes, or the delegate it votes for is not found),
\* the ledger after the failed applyBlock equals the ledger before the call.
C21_CreditAtomic ==
    (Failed("apply") /\ failStage = "credit") => SameLedger(wallets, pre)

\* C22: when every transaction of the block was reverted and the un-credit step
\* throws, the ledger after the failed revertBlock equals the ledger before the call.
C22_UncreditAtomic ==
    (Failed("revert") /\ failStage = "credit") => SameLedger(wallets, pre)

\* ------------------------------------------------------- the vote-weight invariant
RECURSIVE LockSum(_)
LockSum(S) ==
    IF S = {} THEN 0
    ELSE LET k == CHOOSE x \in S : TRUE IN k.amount + LockSum(S \ {k})

\* balance plus locked amounts of the wallets of L that vote for key
RECURSIVE WeightSum(_, _)
WeightSum(L, S) ==
    IF S = {} THEN 0
    ELSE LET a == CHOOSE x \in S : TRUE IN
         L[a].balance + LockSum(L[a].locks) + WeightSum(L, S \ {a})
weightBehind(L, key) == WeightSum(L, {a \in Addresses : L[a].known /\ L[a].vote = key})

VoteWeightOk(L) ==
    \A d \in Addresses :
       (L[d].known /\ L[d].isDelegate) => L[d].voteBalance = weightBehind(L, L[d].publicKey)

\* every call of the run so far succeeded
AllCallsOk == prev.outcome \in {"none", "ok"} /\ outcome = "ok" /\ pc = "idle"

\* C23: from a ledger in which every delegate's vote balance is the sum of balance
\* plus locked amounts of the wallets voting for it, the same holds after every
\* successful applyBlock and revertBlock, the generator's credit included.
C23_VoteWeight ==
    (VoteWeightOk(start) /\ AllCallsOk) => VoteWeightOk(wallets)

\* --------------------------------------------- round trips of a single transaction
\* C24: applyTransaction(tx) immediately followed by revertTransaction(tx) restores
\* the vote balance of every delegate, for every kind of transaction and whichever
\* delegates the sender, the recipients and the lock owner back.
C24_TransactionRoundTrip ==
    \A tx \in TxPool : RoundTripOf(tx.id) => SameVoteBalances(wallets, pre)

C24_Witness ==
    /\ RoundTripOf(TTransfer.id) /\ ev.tx = TTransfer
    /\ backs("aX", "aD") /\ backs("aY", "aE")
    /\ Delta("aE") = 0 - TTransfer.amount
    /\ SameVoteBalances(wallets, pre) /\ ~SameVoteBalances(ev.before, pre)

\* ------------------------------------------- the generator votes inside its block
\* the block holds a vote or unvote sent by its own generator
GeneratorVotes ==
    \E k \in 1..Len(txs) :
       isType(txs[k], "Vote") /\ txs[k].senderPublicKey = data.generatorPublicKey

\* C25: when the block holds a vote or unvote of its own generator, a successful
\* applyBlock followed by a successful revertBlock restores the generator's balance
\* and every vote balance, although the vote is reverted while the generator's
\* balance still holds reward + totalFee.
C25_GeneratorVoteRoundTrip ==
    (Succeeded("revert") /\ prev.op = "apply" /\ prev.outcome = "ok" /\ GeneratorVotes) =>
        /\ wallets[generator].balance = prev.pre[generator].balance
        /\ SameVoteBalances(wallets, prev.pre)

C25_Witness ==
    /\ Succeeded("revert") /\ prev.op = "apply" /\ prev.outcome = "ok"
    /\ txs = << TGenUnvote >> /\ data.generatorPublicKey = "pD"
    /\ prev.pre["aD"].vote = "pE" /\ prev.pre["aE"].voteBalance > 0
    /\ mid["aD"].balance = prev.pre["aD"].balance + credit
    /\ wallets["aE"].voteBalance = prev.pre["aE"].voteBalance

\* ---------------------------------------------------- the production statistics
\* the blocks of the chain forged with public key key
forgedBy(key) == SelectSeq(chain.blocks, LAMBDA b : b.generatorPublicKey = key)

RECURSIVE FeeTotal(_)
FeeTotal(bs) == IF bs = << >> THEN 0 ELSE Head(bs).totalFee + FeeTotal(Tail(bs))
RECURSIVE RewardTotal(_)
RewardTotal(bs) == IF bs = << >> THEN 0 ELSE Head(bs).reward + RewardTotal(Tail(bs))

Statistics(w) == <<w.producedBlocks, w.forgedFees, w.forgedRewards>>

\* C26: as long as every revertBlock undid the block applied last and no call ended
\* in its credit or un-credit step, every delegate's producedBlocks, forgedFees and
\* forgedRewards are the number, the fee total and the reward total of its blocks
\* now applied, none of them negative; a call that failed on a transaction leaves
\* the three fields of every wallet unchanged.
C26_Statistics ==
    /\ (chain.valid /\ pc = "idle") =>
          \A d \in Addresses :
             (wallets[d].known /\ wallets[d].isDelegate) =>
                /\ Statistics(wallets[d]) =
                      << Len(forgedBy(wallets[d].publicKey)),
                         FeeTotal(forgedBy(wallets[d].publicKey)),
                         RewardTotal(forgedBy(wallets[d].publicKey)) >>
                /\ wallets[d].producedBlocks >= 0 /\ wallets[d].forgedFees >= 0
                /\ wallets[d].forgedRewards >= 0
    /\ ((Failed("apply") \/ Failed("revert")) /\ failStage # "credit") =>
          \A a \in Addresses : Statistics(wallets[a]) = Statistics(pre[a])

C26_Witness ==
    /\ chain.valid /\ Succeeded("revert") /\ prev.op = "apply" /\ prev.outcome = "ok"
    /\ chain.blocks = << PreviousBlock >> /\ data.generatorPublicKey = "pD"
    /\ Len(txs) = MaxTxs
    /\ Statistics(mid["aD"]) = <<2, 1 + data.totalFee, 2 * BlockReward>>
    /\ Statistics(wallets["aD"]) = <<1, 1, BlockReward>>

====
